---- MODULE Spec2Model ----
(***************************************************************************)
(* A model of spacy_conll's ConllFormatter (src/spacy_conll/formatter.py). *)
(*                                                                         *)
(* Python strings are sequences of one-character strings, so that "\t"     *)
(* and "\n" inside a token's text are seen by a split on tabs.  Python     *)
(* values are tagged pairs <<tag, payload>>: <<"int", 3>>, <<"str", s>>,   *)
(* <<"dict", items>>, <<"list", elems>>, <<"Series", items>>,              *)
(* <<"DataFrame", [index, rows]>>, <<"None", 0>>.  The tag keeps the       *)
(* integer 0 and the string "0" apart, as Python's dictionary lookup does. *)
(* A dictionary is the sequence of its <<key, value>> items, in insertion  *)
(* order, with distinct keys.                                              *)
(***************************************************************************)
EXTENDS Integers, Sequences, FiniteSets, TLC

VARIABLES
    registry,      \* Underscore's class-level extensions: <<type, name>> -> default
    pd_available,  \* PD_AVAILABLE: whether `import pandas` succeeded
    fmt,           \* the ConllFormatter object in use, or NoFormatter
    doc,           \* the Doc handed to the component, or NoDoc
    ud,            \* doc.user_data: <<object, extension name>> -> value
    err,           \* the exception the last operation raised, or "none"
    ncalls,        \* __call__s made on doc by fmt
    last,          \* the last operation and its arguments
    ret            \* the value _get_morphology last returned

vars == <<registry, pd_available, fmt, doc, ud, err, ncalls, last, ret>>

----------------------------------------------------------------------------
(* Bounds *)

MaxTokens == 3
MaxCalls == 2
MaxFeats == 2

----------------------------------------------------------------------------
(* Characters and string literals *)

TAB == "\t"
NL == "\n"
SP == " "
Whitespace == {SP, TAB, NL, "\r", "\f"}
Digits == {"0", "1", "2", "3", "4", "5", "6", "7", "8", "9"}

S_underscore == <<"_">>
S_SpaceAfterNo == <<"S", "p", "a", "c", "e", "A", "f", "t", "e", "r", "=", "N", "o">>
S_root == <<"r", "o", "o", "t">>
S_sent_id == <<"#", " ", "s", "e", "n", "t", "_", "i", "d", " ", "=", " ">>
S_text == <<"#", " ", "t", "e", "x", "t", " ", "=", " ">>

CONLL_FIELD_NAMES ==
    <<"id", "form", "lemma", "upostag", "xpostag", "feats", "head", "deprel", "deps", "misc">>

NoneV == <<"None", 0>>
IntV(n) == <<"int", n>>
StrV(s) == <<"str", s>>
DictV(items) == <<"dict", items>>
ListV(elems) == <<"list", elems>>

----------------------------------------------------------------------------
(* Python built-ins used by the formatter *)

\* dict: key in d, d[key], d.values()
DictHas(d, k) == \E i \in 1..Len(d) : d[i][1] = k
DictGet(d, k) == d[CHOOSE i \in 1..Len(d) : d[i][1] = k][2]
DictValues(d) == [i \in 1..Len(d) |-> d[i][2]]
DictKeys(d) == [i \in 1..Len(d) |-> d[i][1]]
\* d[k] = v: an existing key keeps its place, a new key is appended
DictSet(d, k, v) ==
    IF DictHas(d, k)
    THEN [i \in 1..Len(d) |-> IF d[i][1] = k THEN <<k, v>> ELSE d[i]]
    ELSE Append(d, <<k, v>>)

\* str.lower(), by character
UpperToLower ==
    << <<"A", "a">>, <<"B", "b">>, <<"C", "c">>, <<"D", "d">>, <<"E", "e">>, <<"F", "f">>,
       <<"G", "g">>, <<"H", "h">>, <<"I", "i">>, <<"J", "j">>, <<"K", "k">>, <<"L", "l">>,
       <<"M", "m">>, <<"N", "n">>, <<"O", "o">>, <<"P", "p">>, <<"Q", "q">>, <<"R", "r">>,
       <<"S", "s">>, <<"T", "t">>, <<"U", "u">>, <<"V", "v">>, <<"W", "w">>, <<"X", "x">>,
       <<"Y", "y">>, <<"Z", "z">> >>
LowerChar(c) == IF DictHas(UpperToLower, c) THEN DictGet(UpperToLower, c) ELSE c
Lower(s) == [i \in 1..Len(s) |-> LowerChar(s[i])]

\* str.strip(): leading and trailing whitespace removed
RECURSIVE LStrip(_)
LStrip(s) == IF s # <<>> /\ Head(s) \in Whitespace THEN LStrip(Tail(s)) ELSE s
RECURSIVE RStrip(_)
RStrip(s) ==
    IF s # <<>> /\ s[Len(s)] \in Whitespace THEN RStrip(SubSeq(s, 1, Len(s) - 1)) ELSE s
Strip(s) == RStrip(LStrip(s))

\* sep.join(parts)
RECURSIVE Join(_, _)
Join(sep, parts) ==
    IF parts = <<>> THEN <<>>
    ELSE IF Len(parts) = 1 THEN parts[1]
    ELSE parts[1] \o sep \o Join(sep, Tail(parts))

\* str(n) of an int
DigitChar(n) == <<"0", "1", "2", "3", "4", "5", "6", "7", "8", "9">>[n + 1]
RECURSIVE NatToStr(_)
NatToStr(n) == IF n < 10 THEN <<DigitChar(n)>> ELSE NatToStr(n \div 10) \o <<DigitChar(n % 10)>>
IntToStr(n) == IF n < 0 THEN <<"-">> \o NatToStr(-n) ELSE NatToStr(n)

\* str(v) of the values a record holds
PyStr(v) == IF v[1] = "int" THEN IntToStr(v[2]) ELSE v[2]

\* bool(x) of an optional dict: None and {} are falsy
Truthy(d) == d[1] = "dict" /\ d[2] # <<>>

\* float(s) succeeds: optional whitespace around, an optional sign, then inf,
\* infinity or nan in any case, or a decimal literal (digits, with single
\* underscores between digits, an optional point, an optional exponent)
DigitPart(s) ==
    /\ s # <<>>
    /\ \A i \in 1..Len(s) : s[i] \in Digits \/ s[i] = "_"
    /\ s[1] # "_" /\ s[Len(s)] # "_"
    /\ \A i \in 1..(Len(s) - 1) : ~(s[i] = "_" /\ s[i + 1] = "_")
Exponent(s) ==
    \/ s = <<>>
    \/ /\ Len(s) >= 2
       /\ s[1] \in {"e", "E"}
       /\ IF s[2] \in {"+", "-"} THEN DigitPart(SubSeq(s, 3, Len(s)))
          ELSE DigitPart(SubSeq(s, 2, Len(s)))
Mantissa(s) ==
    \/ DigitPart(s)
    \/ \E p \in 1..Len(s) :
        /\ s[p] = "."
        /\ LET int == SubSeq(s, 1, p - 1)
               frac == SubSeq(s, p + 1, Len(s))
           IN  \/ DigitPart(int) /\ (frac = <<>> \/ DigitPart(frac))
               \/ int = <<>> /\ DigitPart(frac)
FloatNumber(s) ==
    \E e \in 1..(Len(s) + 1) :
        /\ Mantissa(SubSeq(s, 1, e - 1))
        /\ Exponent(SubSeq(s, e, Len(s)))
ParsesAsFloat(str) ==
    LET s == Strip(str)
        unsigned == IF s # <<>> /\ s[1] \in {"+", "-"} THEN Tail(s) ELSE s
    IN  \/ Lower(unsigned) \in {<<"i", "n", "f">>, <<"n", "a", "n">>,
                                <<"i", "n", "f", "i", "n", "i", "t", "y">>}
        \/ FloatNumber(unsigned)

\* "".join(parts)
Concat(parts) == Join(<<>>, parts)

----------------------------------------------------------------------------
(* spaCy's Underscore and pandas, as the formatter uses them *)

DocObj == <<"Doc", 0, 0>>
SpanObj(s) == <<"Span", s, 0>>
TokenObj(s, t) == <<"Token", s, t>>
ObjTypes == <<"Doc", "Span", "Token">>

\* e's value, computed once, handed to F: a statement's result that the
\* statements after it read
Bind(e, F(_)) == CHOOSE r \in {F(x) : x \in {e}} : TRUE

Put(f, k, v) == [x \in DOMAIN f \cup {k} |-> IF x = k THEN v ELSE f[x]]

\* obj.has_extension(name), obj.set_extension(name, default=None)
HasExtension(reg, type, name) == <<type, name>> \in DOMAIN reg
SetExtension(reg, type, name, default) == Put(reg, <<type, name>>, default)

\* obj._.set(name, value): AttributeError for a name that is not registered;
\* an exception ends the handler, so nothing is written after one
USet(st0, obj, name, value) ==
    Bind(st0, LAMBDA st :
        IF st.err # "none" THEN st
        ELSE IF ~HasExtension(st.reg, obj[1], name) THEN [st EXCEPT !.err = "AttributeError"]
        ELSE [st EXCEPT !.ud = Put(st.ud, <<obj, name>>, value)])

\* obj._.get(name): the value set, else the registered default
UGet(st, obj, name) ==
    IF <<obj, name>> \in DOMAIN st.ud THEN st.ud[<<obj, name>>]
    ELSE IF HasExtension(st.reg, obj[1], name) THEN st.reg[<<obj[1], name>>]
    ELSE NoneV

\* pd.Series(d), pd.DataFrame(list of dicts): rows indexed 0..n-1
PdSeries(d) == <<"Series", d[2]>>
PdDataFrame(rows) ==
    <<"DataFrame", [index |-> [i \in 1..Len(rows) |-> i - 1],
                    rows |-> [i \in 1..Len(rows) |-> rows[i][2]]]>>
\* pd.concat(frames): rows and their indices one after the other;
\* "ValueError: No objects to concatenate" for an empty list
PdConcat(frames) ==
    IF frames = <<>> THEN [err |-> "ValueError", val |-> NoneV]
    ELSE [err |-> "none",
          val |-> <<"DataFrame",
                    [index |-> Concat([i \in 1..Len(frames) |-> frames[i][2].index]),
                     rows |-> Concat([i \in 1..Len(frames) |-> frames[i][2].rows])]>>]
\* df.reset_index(drop=True)
PdResetIndex(df) ==
    <<"DataFrame", [index |-> [i \in 1..Len(df[2].rows) |-> i - 1], rows |-> df[2].rows]>>

----------------------------------------------------------------------------
(* ConllFormatter *)

DefaultExtNames ==
    << <<"conll_str", "conll_str">>, <<"conll", "conll">>, <<"conll_pd", "conll_pd">> >>

NoFormatter ==
    [tagmap |-> NoneV, ext_names |-> <<>>, conversion_maps |-> NoneV,
     include_headers |-> FALSE, disable_pandas |-> FALSE]

NoDoc == <<"None", <<>>>>

PandasOn(f, pd) == pd /\ ~f.disable_pandas

\* _is_number as str.isdigit would have it
IsNumber_DigitsOnly(s) == s # <<>> /\ \A i \in 1..Len(s) : s[i] \in Digits

\* _is_number: float(s) returns, or raises ValueError
IsNumber(s) == ParsesAsFloat(s)

\* the comprehension of _get_morphology: "prop=val" for the items whose
\* key is not a number, in the order of the mapping
RECURSIVE MorphFeats(_)
MorphFeats(items) ==
    IF items = <<>> THEN <<>>
    ELSE IF IsNumber(items[1][1]) THEN MorphFeats(Tail(items))
    ELSE <<items[1][1] \o <<"=">> \o items[1][2]>> \o MorphFeats(Tail(items))

GetMorphology(tagmap, tag) ==
    IF ~Truthy(tagmap) \/ ~DictHas(tagmap[2], tag) THEN S_underscore
    ELSE LET feats == MorphFeats(DictGet(tagmap[2], tag))
         IN  IF feats # <<>> THEN Join(<<"|">>, feats) ELSE S_underscore

\* _map_conll whose replacements are lost
MapConll_Unassigned(maps, d) == d

\* _map_conll: each field whose name has a map holding the field's value
\* is replaced; a KeyError of either lookup leaves the field as it is
MapConll(maps, d) ==
    [i \in 1..Len(d) |->
        IF DictHas(maps, d[i][1]) /\ DictHas(DictGet(maps, d[i][1]), d[i][2])
        THEN <<d[i][1], DictGet(DictGet(maps, d[i][1]), d[i][2])>>
        ELSE d[i]]

\* _merge_dicts_strict as dict.update: an unknown key is added
RECURSIVE MergeDictsStrict_Lax(_, _)
MergeDictsStrict_Lax(d1, d2) ==
    IF d2 = <<>> THEN [err |-> "none", val |-> d1]
    ELSE MergeDictsStrict_Lax(DictSet(d1, d2[1][1], d2[1][2]), Tail(d2))

\* _merge_dicts_strict
RECURSIVE MergeDictsStrict(_, _)
MergeDictsStrict(d1, d2) ==
    IF d2 = <<>> THEN [err |-> "none", val |-> d1]
    ELSE IF ~DictHas(d1, d2[1][1]) THEN [err |-> "KeyError", val |-> d1]
    ELSE MergeDictsStrict(DictSet(d1, d2[1][1], d2[1][2]), Tail(d2))

\* a registration without its has_extension guard (force=True)
Register_Forced(reg, type, name) == SetExtension(reg, type, name, NoneV)

\* one guarded registration of _set_extensions
Register(reg, type, name) ==
    IF ~HasExtension(reg, type, name) THEN SetExtension(reg, type, name, NoneV) ELSE reg

SetExtensionsOf(reg, f, pd, type) ==
    LET r1 == Register(reg, type, DictGet(f.ext_names, "conll_str"))
        r2 == Register(r1, type, DictGet(f.ext_names, "conll"))
    IN  IF PandasOn(f, pd) THEN Register(r2, type, DictGet(f.ext_names, "conll_pd")) ELSE r2

RECURSIVE SetExtensionsFrom(_, _, _, _)
SetExtensionsFrom(reg, f, pd, k) ==
    IF k > Len(ObjTypes) THEN reg
    ELSE SetExtensionsFrom(SetExtensionsOf(reg, f, pd, ObjTypes[k]), f, pd, k + 1)

SetExtensions(reg, f, pd) == SetExtensionsFrom(reg, f, pd, 1)

\* the head column without the sentence's offset
HeadIdx_NoOffset(sent, t) ==
    IF Strip(Lower(sent[t].dep)) = S_root THEN 0
    ELSE sent[t].head + 1

\* the head column with the label compared as it is
HeadIdx_ExactLabel(sent, t) ==
    IF sent[t].dep = S_root THEN 0
    ELSE sent[t].head + 1 - sent[1].i

\* the head column of _set_token_conll
HeadIdx(sent, t) ==
    IF Strip(Lower(sent[t].dep)) = S_root THEN 0
    ELSE sent[t].head + 1 - sent[1].i

\* the ten values of _set_token_conll, zipped with the field names
TokenConllD(f, sent, t) ==
    LET token == sent[t]
        token_conll ==
            << IntV(t), StrV(token.text), StrV(token.lemma), StrV(token.pos),
               StrV(token.tag), StrV(GetMorphology(f.tagmap, token.tag)),
               IntV(HeadIdx(sent, t)), StrV(token.dep), StrV(S_underscore),
               StrV(IF token.ws THEN S_underscore ELSE S_SpaceAfterNo) >>
    IN  [i \in 1..Len(CONLL_FIELD_NAMES) |-> <<CONLL_FIELD_NAMES[i], token_conll[i]>>]

\* "\t".join(map(str, d.values())) + "\n"
TokenConllStr(d) ==
    Join(<<TAB>>, [i \in 1..Len(d) |-> PyStr(DictValues(d)[i])]) \o <<NL>>

SetTokenConll(st, f, pd, s, sent, t) ==
    Bind(IF Truthy(f.conversion_maps)
         THEN MapConll(f.conversion_maps[2], TokenConllD(f, sent, t))
         ELSE TokenConllD(f, sent, t),
         LAMBDA token_conll_d :
            LET st1 == USet(st, TokenObj(s, t), DictGet(f.ext_names, "conll"),
                            DictV(token_conll_d))
                st2 == USet(st1, TokenObj(s, t), DictGet(f.ext_names, "conll_str"),
                            StrV(TokenConllStr(token_conll_d)))
            IN  IF PandasOn(f, pd)
                THEN USet(st2, TokenObj(s, t), DictGet(f.ext_names, "conll_pd"),
                          PdSeries(DictV(token_conll_d)))
                ELSE st2)

RECURSIVE SetTokensFrom(_, _, _, _, _, _)
SetTokensFrom(st, f, pd, s, sent, t) ==
    IF t > Len(sent) THEN st
    ELSE SetTokensFrom(SetTokenConll(st, f, pd, s, sent, t), f, pd, s, sent, t + 1)

\* span.text: the tokens' texts with the whitespace that follows each,
\* without the whitespace after the last one
SpanText(sent) ==
    Concat([t \in 1..Len(sent) |->
        sent[t].text \o (IF sent[t].ws /\ t < Len(sent) THEN <<SP>> ELSE <<>>)])

SpanHeader(f, sent, span_idx) ==
    IF f.include_headers
    THEN S_sent_id \o IntToStr(span_idx) \o <<NL>> \o S_text \o SpanText(sent) \o <<NL>>
    ELSE <<>>

\* the span's attributes, set from its tokens' once these are set
SetSpanAttrs(st1, f, pd, s, sent, span_idx) ==
    LET conll == DictGet(f.ext_names, "conll")
        conll_str == DictGet(f.ext_names, "conll_str")
        toks == 1..Len(sent)
    IN  Bind(USet(st1, SpanObj(s), conll,
                  ListV([t \in toks |-> UGet(st1, TokenObj(s, t), conll)])),
             LAMBDA st2 :
        Bind(USet(st2, SpanObj(s), conll_str,
                  StrV(SpanHeader(f, sent, span_idx)
                       \o Concat([t \in toks |-> UGet(st2, TokenObj(s, t), conll_str)[2]]))),
             LAMBDA st3 :
        IF PandasOn(f, pd)
        THEN USet(st3, SpanObj(s), DictGet(f.ext_names, "conll_pd"),
                  PdDataFrame([t \in toks |-> UGet(st3, TokenObj(s, t), conll)]))
        ELSE st3))

SetSpanConll(st, f, pd, s, sent, span_idx) ==
    Bind(SetTokensFrom(st, f, pd, s, sent, 1),
         LAMBDA st1 : SetSpanAttrs(st1, f, pd, s, sent, span_idx))

RECURSIVE SetSpansFrom(_, _, _, _, _)
SetSpansFrom(st, f, pd, sents, s) ==
    IF s > Len(sents) THEN st
    ELSE SetSpansFrom(SetSpanConll(st, f, pd, s, sents[s], s), f, pd, sents, s + 1)

\* the document's list extended instead of replaced
DocConll_Extend(st, conll, ss) ==
    LET old == UGet(st, DocObj, conll)
    IN  ListV((IF old[1] = "list" THEN old[2] ELSE <<>>)
              \o [s \in ss |-> UGet(st, SpanObj(s), conll)])

\* the document's string without a separator
DocConllStr_NoSeparator(strs) == Concat(strs)

\* [s._.get(conll) for s in doc.sents]
DocConll(st, conll, ss) == ListV([s \in ss |-> UGet(st, SpanObj(s), conll)])

\* "\n".join([s._.get(conll_str) for s in doc.sents])
DocConllStr(strs) == Join(<<NL>>, strs)

\* the aggregation of __call__ over doc.sents
SetDocConll(st, f, pd, sents) ==
    LET conll == DictGet(f.ext_names, "conll")
        conll_str == DictGet(f.ext_names, "conll_str")
        conll_pd == DictGet(f.ext_names, "conll_pd")
        ss == 1..Len(sents)
    IN  Bind(USet(st, DocObj, conll, DocConll(st, conll, ss)),
             LAMBDA st1 :
        Bind(USet(st1, DocObj, conll_str,
                  StrV(DocConllStr([s \in ss |-> UGet(st1, SpanObj(s), conll_str)[2]]))),
             LAMBDA st2 :
        IF PandasOn(f, pd) /\ st2.err = "none"
        THEN Bind(PdConcat([s \in ss |-> UGet(st2, SpanObj(s), conll_pd)]),
                  LAMBDA cat :
                    IF cat.err # "none" THEN [st2 EXCEPT !.err = cat.err]
                    ELSE USet(st2, DocObj, conll_pd, PdResetIndex(cat.val)))
        ELSE st2))

\* __call__, from the registry and the user data it finds
Call(reg, data, f, pd, sents) ==
    Bind(SetSpansFrom([reg |-> SetExtensions(reg, f, pd), ud |-> data, err |-> "none"],
                      f, pd, sents, 1),
         LAMBDA st : SetDocConll(st, f, pd, sents))

\* __init__, from the registry it finds: the formatter made, or the exception
ConllFormatterInit(reg, pd, tagmap, conversion_maps, ext_names, include_headers, disable_pandas) ==
    LET merged == IF Truthy(ext_names) THEN MergeDictsStrict(DefaultExtNames, ext_names[2])
                  ELSE [err |-> "none", val |-> DefaultExtNames]
        self == [tagmap |-> tagmap, ext_names |-> merged.val,
                 conversion_maps |-> conversion_maps,
                 include_headers |-> include_headers, disable_pandas |-> disable_pandas]
    IN  IF merged.err # "none" THEN [err |-> merged.err, self |-> NoFormatter, reg |-> reg]
        ELSE [err |-> "none", self |-> self, reg |-> SetExtensions(reg, self, pd)]

----------------------------------------------------------------------------
(* Inputs: documents, tag maps, conversion maps, rename maps *)

EmptyMap == [x \in {} |-> NoneV]

S_NOUN == <<"N", "O", "U", "N">>
S_VERB == <<"V", "E", "R", "B">>
S_ADJ == <<"A", "D", "J">>
S_SPACE == <<"S", "P", "A", "C", "E">>
S_NN == <<"N", "N">>
S_VB == <<"V", "B">>
S_JJ == <<"J", "J">>
S_SP == <<"_", "S", "P">>
S_ROOT == <<"R", "O", "O", "T">>
S_nsubj == <<"n", "s", "u", "b", "j">>

\* the kinds of token a document is made of: a noun, a root verb without
\* trailing space, a whitespace token whose text is a tab, and a token whose
\* label is " Root " (mixed case, padded)
TokenKinds ==
    << [text |-> <<"a">>, lemma |-> <<"a">>, pos |-> S_NOUN, tag |-> S_NN,
        dep |-> S_nsubj, ws |-> TRUE],
       [text |-> <<"b">>, lemma |-> <<"b">>, pos |-> S_VERB, tag |-> S_VB,
        dep |-> S_ROOT, ws |-> FALSE],
       [text |-> <<TAB>>, lemma |-> <<TAB>>, pos |-> S_SPACE, tag |-> S_SP,
        dep |-> <<"d", "e", "p">>, ws |-> FALSE],
       [text |-> <<"c">>, lemma |-> <<"c">>, pos |-> S_ADJ, tag |-> S_JJ,
        dep |-> <<SP, "R", "o", "o", "t", SP>>, ws |-> TRUE] >>

HeadPatterns == {"last", "docfirst"}

RECURSIVE SumTo(_, _)
SumTo(shape, s) == IF s = 0 THEN 0 ELSE shape[s] + SumTo(shape, s - 1)

\* the sentence lengths of the documents of at most MaxTokens tokens
Shapes ==
    {shape \in UNION {[1..n -> 1..MaxTokens] : n \in 0..MaxTokens} :
        SumTo(shape, Len(shape)) <= MaxTokens}

\* token.head.i under a pattern: the sentence's last token, or the
\* document's first token (the first sentence's first token, and outside
\* the sentence from the second sentence on)
HeadOf(pat, shape, s) == IF pat = "last" THEN SumTo(shape, s) - 1 ELSE 0

\* a Doc: its sentences (doc.sents), each the sequence of its tokens; the
\* token at document position i is of kind k0 + i (cyclically)
MkDoc(shape, k0, pat) ==
    <<"Doc",
      [s \in 1..Len(shape) |->
        [t \in 1..shape[s] |->
            LET i == SumTo(shape, s - 1) + t - 1
                kind == TokenKinds[((k0 - 1 + i) % Len(TokenKinds)) + 1]
            IN  [text |-> kind.text, lemma |-> kind.lemma, pos |-> kind.pos,
                 tag |-> kind.tag, dep |-> kind.dep, ws |-> kind.ws,
                 i |-> i, head |-> HeadOf(pat, shape, s)]]]>>

Docs == {MkDoc(shape, k0, pat) :
            shape \in Shapes, k0 \in 1..Len(TokenKinds), pat \in HeadPatterns}

\* nlp.Defaults.tag_map
TagMapEN ==
    DictV(<< <<S_NN, << << <<"N", "u", "m", "b", "e", "r">>, <<"S", "i", "n", "g">> >>,
                        << <<"2">>, <<"N", "o", "u", "n">> >> >> >>,
             <<S_VB, << << <<"7", "4">>, S_VERB >> >> >>,
             <<S_JJ, << << <<"D", "e", "g">>, <<"P", "o", "s">> >>,
                        << <<"C", "a", "s", "e">>, <<"N", "o", "m">> >> >> >> >>)
TagMaps == {NoneV, TagMapEN}

\* conversion_maps: none; {"upostag": {"NOUN": "N"}} with a "head" map keyed
\* by the string "0"; and maps of the head values 0 and 1 and of the label
\* "ROOT"
ConvUpos ==
    DictV(<< <<"upostag", << <<StrV(S_NOUN), StrV(<<"N">>)>> >> >>,
             <<"head", << <<StrV(<<"0">>), StrV(<<"x">>)>> >> >> >>)
ConvHead ==
    DictV(<< <<"head", << <<IntV(0), StrV(<<"r">>)>>, <<IntV(1), StrV(<<"h">>)>> >> >>,
             <<"deprel", << <<StrV(S_ROOT), StrV(S_root)>> >> >> >>)
ConvMaps == {NoneV, ConvUpos, ConvHead}

\* ext_names: none, empty, renames of recognized names, an unrecognized key
RenameConll == DictV(<< <<"conll", "conll_dict">> >>)
RenamePd == DictV(<< <<"conll_pd", "conll_pandas">>, <<"conll", "conll_dict">> >>)
RenameBogus == DictV(<< <<"bogus", "x">> >>)
RenameThenBogus == DictV(<< <<"conll", "conll_dict">>, <<"bogus", "x">> >>)
ExtNameMaps == {NoneV, DictV(<<>>), RenameConll, RenamePd, RenameBogus, RenameThenBogus}

Recognized(ext_names) ==
    ~Truthy(ext_names) \/ \A i \in 1..Len(ext_names[2]) :
        ext_names[2][i][1] \in {"conll", "conll_str", "conll_pd"}

----------------------------------------------------------------------------
(* Actions *)

Op(op, arg) == [op |-> op, arg |-> arg]

\* formatter = ConllFormatter(nlp, ...): the name is bound only if __init__
\* returns
Construct(tagmap, conversion_maps, ext_names, include_headers, disable_pandas) ==
    LET r == ConllFormatterInit(registry, pd_available, tagmap, conversion_maps,
                                ext_names, include_headers, disable_pandas)
    IN  /\ registry' = r.reg
        /\ err' = r.err
        /\ fmt' = IF r.err = "none" THEN r.self ELSE fmt
        /\ ncalls' = IF r.err = "none" THEN 0 ELSE ncalls
        /\ last' = Op("init", ext_names)
        /\ UNCHANGED <<pd_available, doc, ud, ret>>

\* the pipeline hands over a freshly parsed Doc
LoadDoc(d) ==
    /\ doc = NoDoc
    /\ doc' = d
    /\ ud' = EmptyMap
    /\ ncalls' = 0
    /\ err' = "none"
    /\ last' = Op("load", NoneV)
    /\ UNCHANGED <<registry, pd_available, fmt, ret>>

\* formatter(doc)
Process ==
    /\ fmt # NoFormatter
    /\ doc # NoDoc
    /\ ncalls < MaxCalls
    /\ LET r == Call(registry, ud, fmt, pd_available, doc[2])
       IN  /\ registry' = r.reg
           /\ ud' = r.ud
           /\ err' = r.err
    /\ ncalls' = ncalls + 1
    /\ last' = Op("call", NoneV)
    /\ UNCHANGED <<pd_available, fmt, doc, ret>>

\* a new worker process starts with an empty extension registry
ResetRegistry ==
    /\ registry # EmptyMap
    /\ registry' = EmptyMap
    /\ last' = Op("reset", NoneV)
    /\ UNCHANGED <<pd_available, fmt, doc, ud, err, ncalls, ret>>

\* another component registers Token.conll with a default of its own
RegisterOther ==
    /\ ~HasExtension(registry, "Token", "conll")
    /\ registry' = SetExtension(registry, "Token", "conll", StrV(<<"o">>))
    /\ last' = Op("other", NoneV)
    /\ UNCHANGED <<pd_available, fmt, doc, ud, err, ncalls, ret>>

\* formatter._get_morphology(tag)
Morphology(tag) ==
    /\ fmt # NoFormatter
    /\ ret' = StrV(GetMorphology(fmt.tagmap, tag))
    /\ err' = "none"
    /\ last' = Op("morph", StrV(tag))
    /\ UNCHANGED <<registry, pd_available, fmt, doc, ud, ncalls>>

----------------------------------------------------------------------------
(* Spec: one formatter, constructed with recognized names, formats one Doc *)

\* <<PD_AVAILABLE, disable_pandas>>: disable_pandas is given where pandas
\* is installed
PandasSettings == {<<TRUE, FALSE>>, <<TRUE, TRUE>>, <<FALSE, FALSE>>}

Init ==
    \E pds \in PandasSettings, tm \in TagMaps, cm \in ConvMaps, ih \in BOOLEAN :
        LET pd == pds[1]
            dp == pds[2]
            r == ConllFormatterInit(EmptyMap, pd, tm, cm, NoneV, ih, dp)
        IN  /\ pd_available = pd
            /\ registry = r.reg
            /\ fmt = r.self
            /\ err = r.err
            /\ doc = NoDoc
            /\ ud = EmptyMap
            /\ ncalls = 0
            /\ last = Op("init", NoneV)
            /\ ret = NoneV

Next ==
    \/ \E d \in Docs : LoadDoc(d)
    \/ Process

Spec == Init /\ [][Next]_vars

----------------------------------------------------------------------------
(* SpecMorph: _get_morphology over tag maps of at most MaxFeats features *)

MorphKeys ==
    { <<"N", "u", "m">>, <<"2">>, <<"2", ".", "5">>, <<"-", "2">>, <<"1", "e", "3">>,
      <<"e">>, <<"I", "n", "f">>, <<"2", "x">> }

\* the feature mappings: at most MaxFeats items with distinct keys
FeatMappings ==
    {m \in UNION {[1..n -> MorphKeys \X {<<"v">>, <<"w">>}] : n \in 0..MaxFeats} :
        /\ \A i, j \in 1..Len(m) : i # j => m[i][1] # m[j][1]
        /\ \A i \in 1..Len(m) : m[i][2] = IF i = 1 THEN <<"v">> ELSE <<"w">>}

MorphTagMaps == {NoneV, DictV(<<>>)} \cup {DictV(<< <<S_NN, m>> >>) : m \in FeatMappings}

InitMorph ==
    \E tm \in MorphTagMaps :
        LET r == ConllFormatterInit(EmptyMap, FALSE, tm, NoneV, NoneV, FALSE, FALSE)
        IN  /\ pd_available = FALSE
            /\ registry = r.reg
            /\ fmt = r.self
            /\ err = r.err
            /\ doc = NoDoc
            /\ ud = EmptyMap
            /\ ncalls = 0
            /\ last = Op("init", NoneV)
            /\ ret = NoneV

NextMorph == \E tag \in {S_NN, S_VB} : Morphology(tag)

SpecMorph == InitMorph /\ [][NextMorph]_vars

----------------------------------------------------------------------------
(* SpecReg: formatters are constructed, with any rename map, in a process  *)
(* whose registry other components write and a new worker resets           *)

RegDoc == MkDoc(<<1>>, 1, "last")

InitReg ==
    /\ pd_available \in BOOLEAN
    /\ registry = EmptyMap
    /\ fmt = NoFormatter
    /\ err = "none"
    /\ doc = RegDoc
    /\ ud = EmptyMap
    /\ ncalls = 0
    /\ last = Op("start", NoneV)
    /\ ret = NoneV

NextReg ==
    \/ \E en \in ExtNameMaps, dp \in BOOLEAN : Construct(NoneV, NoneV, en, FALSE, dp)
    \/ Process
    \/ ResetRegistry
    \/ RegisterOther

SpecReg == InitReg /\ [][NextReg]_vars

----------------------------------------------------------------------------
(* What the claims speak of *)

\* the formatter's name of an output attribute, and the value an object holds
ExtName(k) == DictGet(fmt.ext_names, k)
Attr(obj, k) == ud[<<obj, ExtName(k)>>]
Sents == doc[2]
TokenPositions == UNION {{<<s, t>> : t \in 1..Len(Sents[s])} : s \in 1..Len(Sents)}
Formatted == doc # NoDoc /\ ncalls >= 1
Field(rec, name) == DictGet(rec, name)

\* str.split(sep)
RECURSIVE Split(_, _)
Split(s, sep) ==
    IF \E i \in 1..Len(s) : s[i] = sep
    THEN LET i == CHOOSE i \in 1..Len(s) : s[i] = sep /\ \A j \in 1..(i - 1) : s[j] # sep
         IN  <<SubSeq(s, 1, i - 1)>> \o Split(SubSeq(s, i + 1, Len(s)), sep)
    ELSE <<s>>

RootLabel(token) == Strip(Lower(token.dep)) = S_root
HeadsInOwnSentence ==
    \A p \in TokenPositions :
        LET sent == Sents[p[1]]
        IN  sent[p[2]].head \in sent[1].i .. sent[Len(sent)].i
RelHead(p) == 1 + (Sents[p[1]][p[2]].head - Sents[p[1]][1].i)
HeadField(p) == Field(Attr(TokenObj(p[1], p[2]), "conll")[2], "head")
HeadMap ==
    IF Truthy(fmt.conversion_maps) /\ DictHas(fmt.conversion_maps[2], "head")
    THEN DictGet(fmt.conversion_maps[2], "head") ELSE <<>>
Converted(map, v) == IF DictHas(map, v) THEN DictGet(map, v) ELSE v

----------------------------------------------------------------------------
(* C1 *)

\* C1, as stated: once a document whose heads lie in their own sentences is
\* formatted, every token whose label is not root has a head field equal to
\* 1 + (head's position - position of the sentence's first token), a
\* positive integer no greater than the sentence's length.
C1_HeadIsSentenceIndex ==
    (Formatted /\ HeadsInOwnSentence) =>
        \A p \in TokenPositions :
            ~RootLabel(Sents[p[1]][p[2]]) =>
                /\ HeadField(p) = IntV(RelHead(p))
                /\ RelHead(p) \in 1..Len(Sents[p[1]])

\* C1, amended: the same, unless the conversion maps hold a map for "head"
\* with that index as a key; the head field is then the map's replacement.
C1_HeadIsSentenceIndexOrConverted ==
    (Formatted /\ HeadsInOwnSentence) =>
        \A p \in TokenPositions :
            ~RootLabel(Sents[p[1]][p[2]]) =>
                /\ RelHead(p) \in 1..Len(Sents[p[1]])
                /\ HeadField(p) = Converted(HeadMap, IntV(RelHead(p)))

C1_Witness ==
    /\ Formatted /\ HeadsInOwnSentence
    /\ \E p \in TokenPositions :
        /\ p[1] >= 2
        /\ ~RootLabel(Sents[p[1]][p[2]])
        /\ RelHead(p) = 2
        /\ HeadField(p) = IntV(2)

----------------------------------------------------------------------------
(* C2 *)

\* C2, as stated: once a document is formatted, every token whose label,
\* lower-cased and trimmed, is "root" has the head value 0 in its record,
\* whatever the formatter's configuration.
C2_RootHeadIsZero ==
    Formatted =>
        \A p \in TokenPositions :
            RootLabel(Sents[p[1]][p[2]]) => HeadField(p) = IntV(0)

\* C2, amended: the head value is 0 unless the conversion maps hold a map
\* for "head" with 0 as a key; the record then holds the map's replacement.
C2_RootHeadIsZeroOrConverted ==
    Formatted =>
        \A p \in TokenPositions :
            RootLabel(Sents[p[1]][p[2]]) => HeadField(p) = Converted(HeadMap, IntV(0))

C2_Witness ==
    /\ Formatted
    /\ Truthy(fmt.conversion_maps)
    /\ \E p \in TokenPositions :
        /\ Sents[p[1]][p[2]].dep = <<SP, "R", "o", "o", "t", SP>>
        /\ Sents[p[1]][p[2]].head # Sents[p[1]][p[2]].i
        /\ HeadField(p) = IntV(0)

----------------------------------------------------------------------------
(* C3 *)

\* C3: every formatted token's string ends with a newline and, without it,
\* splits on tabs into exactly the ten renderings of the record's values in
\* the order of CONLL_FIELD_NAMES, whatever the token's text, lemma and tags.
C3_LineSplitsIntoTenFields ==
    Formatted =>
        \A p \in TokenPositions :
            LET line == Attr(TokenObj(p[1], p[2]), "conll_str")[2]
                rec == Attr(TokenObj(p[1], p[2]), "conll")[2]
            IN  /\ line # <<>> /\ line[Len(line)] = NL
                /\ DictKeys(rec) = CONLL_FIELD_NAMES
                /\ Split(SubSeq(line, 1, Len(line) - 1), TAB)
                     = [i \in 1..Len(CONLL_FIELD_NAMES) |->
                            PyStr(Field(rec, CONLL_FIELD_NAMES[i]))]

----------------------------------------------------------------------------
(* C4 *)

\* the row of the document's table that holds token p
DocRow(p) == SumTo([s \in 1..Len(Sents) |-> Len(Sents[s])], p[1] - 1) + p[2]

\* the replacement of a raw value under a field's name as the claim
\* describes it: the value of the name's map at the raw value, if a map
\* exists for the name and holds the raw value, else the raw value
ExpectedValue(name, raw) ==
    LET maps == fmt.conversion_maps[2]
        hits == {h \in UNION {{<<j, k>> : k \in 1..Len(maps[j][2])} : j \in 1..Len(maps)} :
                    maps[h[1]][1] = name /\ maps[h[1]][2][h[2]][1] = raw}
    IN  IF hits = {} THEN raw
        ELSE LET h == CHOOSE h \in hits : TRUE IN maps[h[1]][2][h[2]][2]

ExpectedRecord(p) ==
    LET raw == TokenConllD(fmt, Sents[p[1]], p[2])
    IN  [i \in 1..Len(CONLL_FIELD_NAMES) |->
            <<CONLL_FIELD_NAMES[i], ExpectedValue(CONLL_FIELD_NAMES[i], raw[i][2])>>]

\* C4: with conversion maps configured, each field of each token is the
\* replacement when its name has a map holding the raw value and the raw
\* value otherwise, identically in the record, the string, the table row and
\* the sentence's and document's lists and tables; no error is raised.
C4_ConversionInAllRepresentations ==
    (Formatted /\ Truthy(fmt.conversion_maps)) =>
        /\ Sents # <<>> => err = "none"
        /\ \A p \in TokenPositions :
            LET tok == TokenObj(p[1], p[2])
                rec == ExpectedRecord(p)
            IN  /\ Attr(tok, "conll") = DictV(rec)
                /\ Attr(tok, "conll_str")[2] =
                     Join(<<TAB>>, [i \in 1..Len(rec) |-> PyStr(rec[i][2])]) \o <<NL>>
                /\ Attr(SpanObj(p[1]), "conll")[2][p[2]] = DictV(rec)
                /\ Attr(DocObj, "conll")[2][p[1]][2][p[2]] = DictV(rec)
                /\ PandasOn(fmt, pd_available) =>
                    /\ Attr(tok, "conll_pd") = <<"Series", rec>>
                    /\ Attr(SpanObj(p[1]), "conll_pd")[2].rows[p[2]] = rec
                    /\ Attr(DocObj, "conll_pd")[2].rows[DocRow(p)] = rec

C4_Witness ==
    /\ Formatted
    /\ fmt.conversion_maps = ConvUpos
    /\ PandasOn(fmt, pd_available)
    /\ Len(Sents) >= 2
    /\ \E p, q \in TokenPositions :
        /\ Sents[p[1]][p[2]].pos = S_NOUN
        /\ Field(Attr(DocObj, "conll_pd")[2].rows[DocRow(p)], "upostag") = StrV(<<"N">>)
        /\ Sents[q[1]][q[2]].pos = S_VERB
        /\ Field(Attr(TokenObj(q[1], q[2]), "conll")[2], "upostag") = StrV(S_VERB)

----------------------------------------------------------------------------
(* C5 *)

\* the items of the tag's feature mapping whose key does not parse as a number
KeptFeatures(tagmap, tag) ==
    SelectSeq(DictGet(tagmap[2], tag), LAMBDA item : ~ParsesAsFloat(item[1]))

\* C5: _get_morphology returns "_" when the tag map is absent or empty or
\* lacks the tag, or when no feature has a non-numeric key; otherwise the
\* "key=value" pairs with non-numeric keys, in the mapping's order, joined
\* by "|"; and it raises nothing.
C5_MorphologyString ==
    last.op = "morph" =>
        LET tagmap == fmt.tagmap
            tag == last.arg[2]
        IN  /\ err = "none"
            /\ ret[1] = "str"
            /\ IF tagmap = NoneV \/ tagmap = DictV(<<>>) \/ ~DictHas(tagmap[2], tag)
               THEN ret[2] = S_underscore
               ELSE LET kept == KeptFeatures(tagmap, tag)
                    IN  IF kept = <<>> THEN ret[2] = S_underscore
                        ELSE Split(ret[2], "|") =
                                [i \in 1..Len(kept) |-> kept[i][1] \o <<"=">> \o kept[i][2]]

C5_Witness ==
    /\ last.op = "morph"
    /\ Truthy(fmt.tagmap)
    /\ DictHas(fmt.tagmap[2], last.arg[2])
    /\ Len(DictGet(fmt.tagmap[2], last.arg[2])) = 2
    /\ ParsesAsFloat(DictGet(fmt.tagmap[2], last.arg[2])[1][1])
    /\ ret = StrV(<<"N", "u", "m", "=", "w">>)

----------------------------------------------------------------------------
(* C6 *)

\* C6: formatting a document of zero sentences raises nothing, under every
\* configuration, and leaves an empty record list, an empty string and,
\* with tabular output, an empty table on the document.
C6_EmptyDocumentFormats ==
    (Formatted /\ Sents = <<>>) =>
        /\ err = "none"
        /\ Attr(DocObj, "conll") = ListV(<<>>)
        /\ Attr(DocObj, "conll_str") = StrV(<<>>)
        /\ PandasOn(fmt, pd_available) =>
            /\ <<DocObj, ExtName("conll_pd")>> \in DOMAIN ud
            /\ Attr(DocObj, "conll_pd")[1] = "DataFrame"
            /\ Attr(DocObj, "conll_pd")[2].rows = <<>>

----------------------------------------------------------------------------
(* C7 *)

\* C7: a construction whose rename map has an unrecognized key raises during
\* construction, with no attribute registered by it and no formatter made
\* (so no document is processed by it); a construction whose rename map has
\* recognized keys only never raises.
C7_UnknownRenameKeyFailsFirst ==
    /\ [](fmt = NoFormatter => (ncalls = 0 /\ ud = EmptyMap))
    /\ [][last'.op = "init" =>
            IF Recognized(last'.arg)
            THEN err' = "none" /\ fmt' # NoFormatter
            ELSE /\ err' = "KeyError"
                 /\ registry' = registry
                 /\ fmt' = fmt /\ ud' = ud /\ ncalls' = ncalls]_vars

C7_Witness ==
    /\ last = Op("init", RenameThenBogus)
    /\ err = "KeyError"
    /\ registry = EmptyMap
    /\ fmt = NoFormatter

----------------------------------------------------------------------------
(* C8 *)

\* C8: a second or later call on the same document by the same formatter
\* leaves every attribute of the document, its sentences and its tokens as
\* the call before left it.
C8_SecondCallChangesNothing ==
    [][(ncalls >= 1 /\ ncalls' = ncalls + 1) => ud' = ud]_vars

C8_Witness ==
    /\ ncalls = 2
    /\ Len(Sents) >= 2
    /\ fmt.include_headers
    /\ PandasOn(fmt, pd_available)
    /\ err = "none"

----------------------------------------------------------------------------
(* C9 *)

SentStr(s) == Attr(SpanObj(s), "conll_str")[2]
TokenLines(s) == Concat([t \in 1..Len(Sents[s]) |-> Attr(TokenObj(s, t), "conll_str")[2]])
\* where sentence s ends in the document's string
SentEnd(s) == SumTo([j \in 1..Len(Sents) |-> Len(SentStr(j))], s) + (s - 1)

\* C9: the document's string is its sentences' strings, in order, joined by
\* one newline, so that one blank line, and only one, separates consecutive
\* sentences; a sentence's string is its two header lines ("# sent_id = "
\* and its index, "# text = " and its text), if headers are on, followed by
\* its tokens' lines in order.
C9_SentencesJoinedByBlankLine ==
    Formatted =>
        LET docstr == Attr(DocObj, "conll_str")[2]
        IN  /\ Len(docstr) = IF Sents = <<>> THEN 0 ELSE SentEnd(Len(Sents))
            /\ \A s \in 1..Len(Sents) :
                /\ SubSeq(docstr, SentEnd(s) - Len(SentStr(s)) + 1, SentEnd(s)) = SentStr(s)
                /\ SentStr(s) =
                     (IF fmt.include_headers
                      THEN S_sent_id \o IntToStr(s) \o <<NL>>
                            \o S_text \o SpanText(Sents[s]) \o <<NL>>
                      ELSE <<>>) \o TokenLines(s)
                /\ SentStr(s)[1] # NL
                /\ s < Len(Sents) =>
                    /\ docstr[SentEnd(s) - 1] # NL
                    /\ docstr[SentEnd(s)] = NL
                    /\ docstr[SentEnd(s) + 1] = NL
                    /\ docstr[SentEnd(s) + 2] # NL

C9_Witness ==
    /\ Formatted
    /\ Len(Sents) = 3
    /\ fmt.include_headers
    /\ Len(Split(Attr(DocObj, "conll_str")[2], NL)) = 12

----------------------------------------------------------------------------
(* C10 *)

\* the names the formatter writes under
NamesWritten(f, pd) ==
    {DictGet(f.ext_names, "conll"), DictGet(f.ext_names, "conll_str")}
        \cup (IF PandasOn(f, pd) THEN {DictGet(f.ext_names, "conll_pd")} ELSE {})

\* C10: across constructions, calls, registrations by others and resets of
\* the registry, a construction or a call never changes a registration that
\* exists and never changes or clears a value held under a name it does not
\* write; and a call raises no AttributeError and leaves every attribute it
\* writes registered, also after a reset.
C10_RegistrationIsGuarded ==
    [][last'.op \in {"init", "call"} =>
        /\ \A k \in DOMAIN registry : k \in DOMAIN registry' /\ registry'[k] = registry[k]
        /\ last'.op = "init" => ud' = ud
        /\ last'.op = "call" =>
            /\ err' # "AttributeError"
            /\ \A k \in DOMAIN ud :
                k[2] \notin NamesWritten(fmt, pd_available) =>
                    k \in DOMAIN ud' /\ ud'[k] = ud[k]
            /\ \A k \in DOMAIN ud' :
                (k \notin DOMAIN ud \/ ud'[k] # ud[k] \/ k[2] \in NamesWritten(fmt, pd_available))
                    => HasExtension(registry', k[1][1], k[2])]_vars

C10_Witness ==
    /\ last.op = "call"
    /\ err = "none"
    /\ HasExtension(registry, "Token", "conll")
    /\ registry[<<"Token", "conll">>] = StrV(<<"o">>)
    /\ \E k \in DOMAIN ud : ~HasExtension(registry, k[1][1], k[2])
    /\ \A k \in DOMAIN ud :
        k[2] \in NamesWritten(fmt, pd_available) => HasExtension(registry, k[1][1], k[2])

====
